---------------------------- MODULE Spec2Model ----------------------------
(***************************************************************************)
(* Bounded-buffer producer/consumer of Assignment1, in its two variants:   *)
(*   "Queue"      ProducerConsumer           (producer_consumer.py),       *)
(*                built on queue.Queue(maxsize=capacity);                  *)
(*   "WaitNotify" ProducerConsumerWaitNotify (producer_consumer_wait_      *)
(*                notify.py), built on a list guarded by one               *)
(*                threading.Condition.                                     *)
(* The producer and the consumer thread advance one source statement at a  *)
(* time; pc[t] is the statement thread t executes next.                    *)
(***************************************************************************)
EXTENDS Integers, Sequences, FiniteSets, TLC

(* ------------------------------ bounds --------------------------------- *)
MaxCapacity == 2      \* capacities 1..MaxCapacity are constructed
MaxItems    == 3      \* item counts 0..MaxItems, sources of that length
MaxRuns     == 2      \* run() calls on one controller that start threads

(* ------------------------- program constants --------------------------- *)
None == 0             \* the sentinel: Python's None; real items are >= 1

VARIABLES
    variant,                \* which class was constructed
    capacity,               \* self.capacity
    source_container,       \* self.source_container
    destination_container,  \* self.destination_container
    shared_queue,           \* self.shared_queue (FIFO contents, front first)
    producer_finished,      \* self.producer_finished / self._producer_finished
    stats,                  \* self.stats
    cond_owner,             \* holder of self.condition's lock (WaitNotify)
    waiters,                \* self.condition's wait set, oldest first
    dest_lock,              \* holder of self.dest_lock / self.lock
    pc,                     \* next statement of each thread
    idx,                    \* producer: position of the for loop in the source
    current_size,           \* producer: local current_size
    consumed,               \* consumer: local consumed
    item,                   \* consumer: local item
    total_items,            \* consumer: argument total_items
    phase,                  \* "idle", "running" (threads started), "completed"
    mode,                   \* "run": threads started by run(); "direct": by the caller
    runs,                   \* number of run() calls that started their threads
    error,                  \* outcome of the last public call: "none" / "ValueError"
    reader_pc,              \* next statement of each external reader thread
    returned                \* the list each reader last got from a getter

vars == <<variant, capacity, source_container, destination_container,
          shared_queue, producer_finished, stats, cond_owner, waiters,
          dest_lock, pc, idx, current_size, consumed, item, total_items,
          phase, mode, runs, error, reader_pc, returned>>

Threads == {"producer", "consumer"}

\* threads of the caller that read the containers through the getters
Readers == {"reader1", "reader2"}

\* a reader that has not called a getter holds no list
NoList == [of |-> "none", items |-> <<>>, shared |-> FALSE]

(* ------------------------------ helpers -------------------------------- *)

\* mutant: the range starts at 0
Range_FromZero(n) == [i \in 1..n |-> i - 1]

\* list(range(1, item_count + 1))
Range(n) == [i \in 1..n |-> i]

\* the source entries the producer does not skip
NonSentinel(s) == SelectSeq(s, LAMBDA x : x # None)

IsPrefix(a, b) == Len(a) <= Len(b) /\ SubSeq(b, 1, Len(a)) = a

Max(a, b) == IF a >= b THEN a ELSE b

\* Statistics(): every field at its dataclass default.
\* Durations and timestamps are kept by sign: 0 is 0.0, 1 is "positive".
Statistics ==
    [items_produced |-> 0, items_consumed |-> 0,
     producer_wait_time |-> 0, consumer_wait_time |-> 0,
     max_queue_size |-> 0, start_time |-> 0, end_time |-> 0]

\* (wait_end - wait_start) * 1000: zero or positive
Elapsed == {0, 1}

\* w += elapsed, by sign
AddTime(w, d) == IF w + d > 0 THEN 1 ELSE 0

\* the explicit lists a caller may hand to initialize_source_custom:
\* [1..n] with any of its entries replaced by None
CustomSources ==
    UNION { { [i \in 1..n |-> IF i \in m THEN None ELSE i] : m \in SUBSET (1..n) }
            : n \in 0..MaxItems }

(* --------------------------- construction ------------------------------ *)

\* __init__(capacity) with capacity > 0 (capacity <= 0 raises and yields no object)
Init ==
    /\ variant \in {"Queue", "WaitNotify"}
    /\ capacity \in 1..MaxCapacity
    /\ source_container = <<>>
    /\ destination_container = <<>>
    /\ shared_queue = <<>>
    /\ producer_finished = FALSE
    /\ stats = Statistics
    /\ cond_owner = "none"
    /\ waiters = <<>>
    /\ dest_lock = "none"
    /\ pc = [t \in Threads |-> "idle"]
    /\ idx = 0
    /\ current_size = 0
    /\ consumed = 0
    /\ item = None
    /\ total_items = 0
    /\ phase = "idle"
    /\ mode = "none"
    /\ runs = 0
    /\ error = "none"
    /\ reader_pc = [r \in Readers |-> "idle"]
    /\ returned = [r \in Readers |-> NoList]

ctrlVars  == <<variant, capacity, phase, mode, runs>>
lockVars  == <<cond_owner, waiters, dest_lock>>
localVars == <<idx, current_size, consumed, item, total_items>>
dataVars  == <<source_container, destination_container, shared_queue,
               producer_finished, stats>>
readVars  == <<reader_pc, returned>>

\* the moment before the constructor is called: no controller exists yet; the
\* class (variant) is chosen, the fields hold placeholders
InitNew ==
    /\ variant \in {"Queue", "WaitNotify"}
    /\ capacity = 0
    /\ source_container = <<>>
    /\ destination_container = <<>>
    /\ shared_queue = <<>>
    /\ producer_finished = FALSE
    /\ stats = Statistics
    /\ cond_owner = "none"
    /\ waiters = <<>>
    /\ dest_lock = "none"
    /\ pc = [t \in Threads |-> "idle"]
    /\ idx = 0
    /\ current_size = 0
    /\ consumed = 0
    /\ item = None
    /\ total_items = 0
    /\ phase = "new"
    /\ mode = "none"
    /\ runs = 0
    /\ error = "none"
    /\ reader_pc = [r \in Readers |-> "idle"]
    /\ returned = [r \in Readers |-> NoList]

\* mutant: the constructor accepts capacity 0
InvalidCapacity_NegativeOnly(c) == c < 0

\* the constructor's validation: "if capacity <= 0: raise ValueError"
InvalidCapacity(c) == c <= 0

\* __init__(c): raises for an invalid capacity (no object results), otherwise
\* creates the empty buffer, source and destination, stores the capacity,
\* clears the flag and creates a fresh Statistics
Construct(c) ==
    /\ phase = "new"
    /\ IF InvalidCapacity(c)
         THEN /\ error' = "ValueError"
              /\ phase' = "invalid"
              /\ UNCHANGED <<capacity, dataVars>>
         ELSE /\ error' = "none"
              /\ phase' = "idle"
              /\ capacity' = c
              /\ shared_queue' = <<>>
              /\ source_container' = <<>>
              /\ destination_container' = <<>>
              /\ producer_finished' = FALSE
              /\ stats' = Statistics
    /\ UNCHANGED <<readVars, variant, mode, runs, lockVars, pc, localVars>>


(* --------------------------- public calls ------------------------------ *)

\* What reset_statistics() leaves: a fresh Statistics, the flag cleared, the
\* destination cleared (under its lock). The shared buffer is not touched.
\* mutant: reset_statistics() forgets to clear the destination
AfterReset_KeepDestination ==
    [stats |-> Statistics,
     producer_finished |-> FALSE,
     destination_container |-> destination_container]

AfterReset ==
    [stats |-> Statistics,
     producer_finished |-> FALSE,
     destination_container |-> <<>>]

\* initialize_source(item_count), called by the user before starting threads
InitializeSource(n) ==
    /\ phase = "idle"
    /\ IF n < 0
         THEN /\ error' = "ValueError"
              /\ UNCHANGED source_container
         ELSE /\ error' = "none"
              /\ source_container' = Range(n)
    /\ UNCHANGED <<readVars, ctrlVars, destination_container, shared_queue,
                   producer_finished, stats, lockVars, pc, localVars>>

\* mutant: the None check is missing
InitializeSourceCustom_NoCheck(absent, items) ==
    /\ phase = "idle"
    /\ variant = "Queue"
    /\ error' = "none"
    /\ source_container' = items
    /\ UNCHANGED <<readVars, ctrlVars, destination_container, shared_queue,
                   producer_finished, stats, lockVars, pc, localVars>>

\* initialize_source_custom(items); absent = TRUE is the call with items = None.
\* Only ProducerConsumer has this method.
InitializeSourceCustom(absent, items) ==
    /\ phase = "idle"
    /\ variant = "Queue"
    /\ IF absent
         THEN /\ error' = "ValueError"
              /\ UNCHANGED source_container
         ELSE /\ error' = "none"
              /\ source_container' = items
    /\ UNCHANGED <<readVars, ctrlVars, destination_container, shared_queue,
                   producer_finished, stats, lockVars, pc, localVars>>

\* ProducerConsumerWaitNotify has no initialize_source_custom: a caller that
\* wants its own source assigns the public attribute source_container
AssignSource(items) ==
    /\ phase = "idle"
    /\ variant = "WaitNotify"
    /\ source_container' = items
    /\ error' = "none"
    /\ UNCHANGED <<readVars, ctrlVars, destination_container, shared_queue,
                   producer_finished, stats, lockVars, pc, localVars>>

\* mutant: reset_statistics() keeps the old high-water mark
ResetStatistics_KeepsHighWater ==
    /\ phase \in {"idle", "completed"}
    /\ dest_lock = "none"
    /\ stats' = [AfterReset.stats EXCEPT !.max_queue_size = stats.max_queue_size]
    /\ producer_finished' = AfterReset.producer_finished
    /\ destination_container' = AfterReset.destination_container
    /\ error' = "none"
    /\ UNCHANGED <<readVars, ctrlVars, source_container, shared_queue, lockVars, pc,
                   localVars>>

\* reset_statistics() called by the user while no run is in progress
ResetStatistics ==
    /\ phase \in {"idle", "completed"}
    /\ dest_lock = "none"
    /\ stats' = AfterReset.stats
    /\ producer_finished' = AfterReset.producer_finished
    /\ destination_container' = AfterReset.destination_container
    /\ error' = "none"
    /\ UNCHANGED <<readVars, ctrlVars, source_container, shared_queue, lockVars, pc,
                   localVars>>

\* mutant: run() resets before it validates item_count
RunBody_ResetFirst(n) ==
    /\ dest_lock = "none"
    /\ producer_finished' = AfterReset.producer_finished
    /\ destination_container' = AfterReset.destination_container
    /\ IF n < 0
         THEN /\ error' = "ValueError"
              /\ stats' = AfterReset.stats
              /\ UNCHANGED <<source_container, shared_queue, pc, total_items,
                             phase, mode, runs>>
         ELSE /\ error' = "none"
              /\ source_container' = Range(n)
              /\ stats' = [AfterReset.stats EXCEPT !.start_time = 1]
              /\ pc' = [producer |-> "p_start", consumer |-> "c_start"]
              /\ total_items' = n
              /\ phase' = "running"
              /\ mode' = "run"
              /\ runs' = runs + 1
              /\ UNCHANGED shared_queue
    /\ UNCHANGED <<readVars, variant, capacity, lockVars, idx, current_size, consumed, item>>

\* run(item_count) up to the two Thread.start() calls: initialize_source (which
\* raises out of run for item_count < 0), reset_statistics, start_time, start.
RunBody(n) ==
    /\ IF n < 0
         THEN /\ error' = "ValueError"
              /\ UNCHANGED <<dataVars, pc, total_items, phase, mode, runs>>
         ELSE /\ error' = "none"
              /\ dest_lock = "none"
              /\ source_container' = Range(n)
              /\ stats' = [AfterReset.stats EXCEPT !.start_time = 1]
              /\ producer_finished' = AfterReset.producer_finished
              /\ destination_container' = AfterReset.destination_container
              /\ pc' = [producer |-> "p_start", consumer |-> "c_start"]
              /\ total_items' = n
              /\ phase' = "running"
              /\ mode' = "run"
              /\ runs' = runs + 1
              /\ UNCHANGED shared_queue
    /\ UNCHANGED <<readVars, variant, capacity, lockVars, idx, current_size, consumed, item>>

\* run(item_count) on a controller that has not run yet
Run(n) ==
    /\ phase = "idle"
    /\ RunBody(n)

\* run(item_count) called again once an earlier run() has returned
RunAgain(n) ==
    /\ phase = "completed"
    /\ mode = "run"
    /\ runs < MaxRuns
    /\ RunBody(n)

\* The caller starts the two role methods itself, as threads, on the source it
\* installed: Thread(target=producer) and Thread(target=consumer, args=(t,)).
StartThreads(t) ==
    /\ phase = "idle"
    /\ pc' = [producer |-> "p_start", consumer |-> "c_start"]
    /\ total_items' = t
    /\ phase' = "running"
    /\ mode' = "direct"
    /\ error' = "none"
    /\ UNCHANGED <<readVars, variant, capacity, runs, dataVars, lockVars, idx,
                   current_size, consumed, item>>

(* ------------------------ condition variable --------------------------- *)

\* the thread a notify() wakes: the oldest waiter, if any
Woken(w) == IF w = <<>> THEN "nobody" ELSE Head(w)

\* the wait set after a notify()
AfterNotify(w) == IF w = <<>> THEN w ELSE Tail(w)

\* a woken thread is back inside wait(), about to take the lock again
ReacquireLabel(t) == IF t = "producer" THEN "p_reacquire" ELSE "c_reacquire"

\* pc after thread t has executed notify() and moves on to label next
NotifyFrom(t, next) ==
    [u \in Threads |->
        IF u = t THEN next
        ELSE IF u = Woken(waiters) THEN ReacquireLabel(u)
        ELSE pc[u]]

\* thread t moves on to label next, the other thread stays where it is
Goto(t, next) == [pc EXCEPT ![t] = next]

\* condition.wait() may return although nobody notified this thread (a
\* spurious wake-up, allowed by the condition-variable contract): the waiter
\* leaves the wait set and competes for the lock like a notified one
SpuriousWake(t) ==
    /\ variant = "WaitNotify"
    /\ pc[t] \in {"p_waiting", "c_waiting"}
    /\ waiters' = SelectSeq(waiters, LAMBDA u : u # t)
    /\ pc' = Goto(t, ReacquireLabel(t))
    /\ UNCHANGED <<readVars, ctrlVars, dataVars, cond_owner, dest_lock,
                   localVars, error>>

(* ------------------------------ producer ------------------------------- *)

\* where the producer goes once its for loop is over (or the source is empty)
ProducerFinish == IF variant = "Queue" THEN "p_fin_set" ELSE "p_fin_acquire"

\* "if not self.source_container": the empty source goes straight to the flag
ProducerStart ==
    /\ pc["producer"] = "p_start"
    /\ IF source_container = <<>>
         THEN /\ pc' = Goto("producer", ProducerFinish)
              /\ UNCHANGED idx
         ELSE /\ pc' = Goto("producer", "p_next")
              /\ idx' = 1
    /\ UNCHANGED <<readVars, ctrlVars, dataVars, lockVars, current_size, consumed, item,
                   total_items, error>>

\* mutant: the producer does not skip None entries
ProducerNext_NoSkip ==
    /\ pc["producer"] = "p_next"
    /\ IF idx > Len(source_container)
         THEN /\ pc' = Goto("producer", ProducerFinish)
              /\ idx' = 0
         ELSE /\ pc' = Goto("producer",
                            IF variant = "Queue" THEN "p_put" ELSE "p_acquire")
              /\ UNCHANGED idx
    /\ UNCHANGED <<readVars, ctrlVars, dataVars, lockVars, current_size, consumed, item,
                   total_items, error>>

\* "for item in self.source_container" with "if item is None: continue"
ProducerNext ==
    /\ pc["producer"] = "p_next"
    /\ IF idx > Len(source_container)
         THEN /\ pc' = Goto("producer", ProducerFinish)
              /\ idx' = 0
         ELSE IF source_container[idx] = None
         THEN /\ pc' = pc
              /\ idx' = idx + 1
         ELSE /\ pc' = Goto("producer",
                            IF variant = "Queue" THEN "p_put" ELSE "p_acquire")
              /\ UNCHANGED idx
    /\ UNCHANGED <<readVars, ctrlVars, dataVars, lockVars, current_size, consumed, item,
                   total_items, error>>

\* mutant: the producer enters its block without taking the lock
ProducerAcquire_NoLock ==
    /\ pc["producer"] = "p_acquire"
    /\ pc' = Goto("producer", "p_full")
    /\ UNCHANGED <<readVars, ctrlVars, dataVars, lockVars, localVars, error>>

\* WaitNotify: "with self.condition:" taken by the producer
ProducerAcquire ==
    /\ pc["producer"] = "p_acquire"
    /\ cond_owner = "none"
    /\ cond_owner' = "producer"
    /\ pc' = Goto("producer", "p_full")
    /\ UNCHANGED <<readVars, ctrlVars, dataVars, waiters, dest_lock, localVars, error>>

\* mutant: the full test is off by one
QueueFull_OffByOne == Len(shared_queue) = capacity + 1

\* WaitNotify: the producer's wait predicate
QueueFull == Len(shared_queue) = capacity

\* mutant: the producer waits before testing its predicate
ProducerCheckFull_WaitFirst ==
    /\ pc["producer"] = "p_full"
    /\ cond_owner' = "none"
    /\ waiters' = Append(waiters, "producer")
    /\ pc' = Goto("producer", "p_waiting")
    /\ UNCHANGED <<readVars, ctrlVars, dataVars, dest_lock, localVars, error>>

\* WaitNotify: "while len(self.shared_queue) == self.capacity: self.condition.wait()"
\* wait() releases the lock and joins the wait set
ProducerCheckFull ==
    /\ pc["producer"] = "p_full"
    /\ IF QueueFull
         THEN /\ cond_owner' = "none"
              /\ waiters' = Append(waiters, "producer")
              /\ pc' = Goto("producer", "p_waiting")
         ELSE /\ pc' = Goto("producer", "p_time")
              /\ UNCHANGED <<cond_owner, waiters>>
    /\ UNCHANGED <<readVars, ctrlVars, dataVars, dest_lock, localVars, error>>

\* mutant: "if" instead of "while": no re-check after wait() returns
ProducerReacquire_NoRecheck ==
    /\ pc["producer"] = "p_reacquire"
    /\ cond_owner = "none"
    /\ cond_owner' = "producer"
    /\ pc' = Goto("producer", "p_time")
    /\ UNCHANGED <<readVars, ctrlVars, dataVars, waiters, dest_lock, localVars, error>>

\* WaitNotify: a notified producer takes the lock again before wait() returns
ProducerReacquire ==
    /\ pc["producer"] = "p_reacquire"
    /\ cond_owner = "none"
    /\ cond_owner' = "producer"
    /\ pc' = Goto("producer", "p_full")
    /\ UNCHANGED <<readVars, ctrlVars, dataVars, waiters, dest_lock, localVars, error>>

\* mutant: the queue admits one item more than maxsize
PutBlocks_OffByOne == Len(shared_queue) > capacity

\* Queue: queue.Queue.put blocks while the queue holds maxsize items
PutBlocks == Len(shared_queue) >= capacity

\* mutant: put() does not wait for room
ProducerPut_NoWait ==
    /\ pc["producer"] = "p_put"
    /\ shared_queue' = Append(shared_queue, source_container[idx])
    /\ pc' = Goto("producer", "p_time")
    /\ UNCHANGED <<readVars, ctrlVars, source_container, destination_container,
                   producer_finished, stats, lockVars, localVars, error>>

\* Queue: "self.shared_queue.put(item)"
ProducerPut ==
    /\ pc["producer"] = "p_put"
    /\ ~PutBlocks
    /\ shared_queue' = Append(shared_queue, source_container[idx])
    /\ pc' = Goto("producer", "p_time")
    /\ UNCHANGED <<readVars, ctrlVars, source_container, destination_container,
                   producer_finished, stats, lockVars, localVars, error>>

\* "self.stats.producer_wait_time += (wait_end - wait_start) * 1000"
ProducerTime ==
    /\ pc["producer"] = "p_time"
    /\ \E d \in Elapsed :
         stats' = [stats EXCEPT
                     !.producer_wait_time = AddTime(stats.producer_wait_time, d)]
    /\ pc' = Goto("producer", IF variant = "Queue" THEN "p_size" ELSE "p_append")
    /\ UNCHANGED <<readVars, ctrlVars, source_container, destination_container,
                   shared_queue, producer_finished, lockVars, localVars, error>>

\* mutant: the item is appended twice
ProducerAppend_Twice ==
    /\ pc["producer"] = "p_append"
    /\ shared_queue' = Append(Append(shared_queue, source_container[idx]),
                              source_container[idx])
    /\ pc' = Goto("producer", "p_size")
    /\ UNCHANGED <<readVars, ctrlVars, source_container, destination_container,
                   producer_finished, stats, lockVars, localVars, error>>

\* WaitNotify: "self.shared_queue.append(item)"
ProducerAppend ==
    /\ pc["producer"] = "p_append"
    /\ shared_queue' = Append(shared_queue, source_container[idx])
    /\ pc' = Goto("producer", "p_size")
    /\ UNCHANGED <<readVars, ctrlVars, source_container, destination_container,
                   producer_finished, stats, lockVars, localVars, error>>

\* "current_size = self.shared_queue.qsize()" / "current_size = len(self.shared_queue)"
ProducerSize ==
    /\ pc["producer"] = "p_size"
    /\ current_size' = Len(shared_queue)
    /\ pc' = Goto("producer", "p_max")
    /\ UNCHANGED <<readVars, ctrlVars, dataVars, lockVars, idx, consumed, item,
                   total_items, error>>

\* mutant: the high-water mark is not updated
ProducerMax_Skipped ==
    /\ pc["producer"] = "p_max"
    /\ pc' = Goto("producer", "p_count")
    /\ UNCHANGED <<readVars, ctrlVars, dataVars, lockVars, localVars, error>>

\* "self.stats.max_queue_size = max(self.stats.max_queue_size, current_size)"
ProducerMax ==
    /\ pc["producer"] = "p_max"
    /\ stats' = [stats EXCEPT
                   !.max_queue_size = Max(stats.max_queue_size, current_size)]
    /\ pc' = Goto("producer", "p_count")
    /\ UNCHANGED <<readVars, ctrlVars, source_container, destination_container,
                   shared_queue, producer_finished, lockVars, localVars, error>>

\* mutant: the producer never counts what it enqueued
ProducerCount_Forgotten ==
    /\ pc["producer"] = "p_count"
    /\ IF variant = "Queue"
         THEN /\ pc' = Goto("producer", "p_next")
              /\ idx' = idx + 1
              /\ current_size' = 0
         ELSE /\ pc' = Goto("producer", "p_notify")
              /\ UNCHANGED <<idx, current_size>>
    /\ UNCHANGED <<readVars, ctrlVars, dataVars, lockVars, consumed, item, total_items,
                   error>>

\* "self.stats.items_produced += 1"; in the Queue variant the iteration ends
\* here (print, sleep) and current_size is dead
ProducerCount ==
    /\ pc["producer"] = "p_count"
    /\ stats' = [stats EXCEPT !.items_produced = stats.items_produced + 1]
    /\ IF variant = "Queue"
         THEN /\ pc' = Goto("producer", "p_next")
              /\ idx' = idx + 1
              /\ current_size' = 0
         ELSE /\ pc' = Goto("producer", "p_notify")
              /\ UNCHANGED <<idx, current_size>>
    /\ UNCHANGED <<readVars, ctrlVars, source_container, destination_container,
                   shared_queue, producer_finished, lockVars, consumed, item,
                   total_items, error>>

\* mutant: the notify after the append is missing
ProducerNotify_Lost ==
    /\ pc["producer"] = "p_notify"
    /\ pc' = Goto("producer", "p_release")
    /\ UNCHANGED <<readVars, ctrlVars, dataVars, lockVars, localVars, error>>

\* WaitNotify: "self.condition.notify()" after the append
ProducerNotify ==
    /\ pc["producer"] = "p_notify"
    /\ waiters' = AfterNotify(waiters)
    /\ pc' = NotifyFrom("producer", "p_release")
    /\ UNCHANGED <<readVars, ctrlVars, dataVars, cond_owner, dest_lock, localVars, error>>

\* WaitNotify: the with block ends (lock released), then time.sleep(0.1)
ProducerRelease ==
    /\ pc["producer"] = "p_release"
    /\ cond_owner' = "none"
    /\ pc' = Goto("producer", "p_next")
    /\ idx' = idx + 1
    /\ current_size' = 0
    /\ UNCHANGED <<readVars, ctrlVars, dataVars, waiters, dest_lock, consumed, item,
                   total_items, error>>

\* WaitNotify: "with self.condition:" around the producer_finished flag
ProducerFinAcquire ==
    /\ pc["producer"] = "p_fin_acquire"
    /\ cond_owner = "none"
    /\ cond_owner' = "producer"
    /\ pc' = Goto("producer", "p_fin_set")
    /\ UNCHANGED <<readVars, ctrlVars, dataVars, waiters, dest_lock, localVars, error>>

\* "self.producer_finished = True" / "self._producer_finished = True"
\* mutant: the producer ends without setting the flag
ProducerFinSet_Forgotten ==
    /\ pc["producer"] = "p_fin_set"
    /\ pc' = Goto("producer", IF variant = "Queue" THEN "done" ELSE "p_fin_notify")
    /\ UNCHANGED <<readVars, ctrlVars, dataVars, lockVars, localVars, error>>

ProducerFinSet ==
    /\ pc["producer"] = "p_fin_set"
    /\ producer_finished' = TRUE
    /\ pc' = Goto("producer", IF variant = "Queue" THEN "done" ELSE "p_fin_notify")
    /\ UNCHANGED <<readVars, ctrlVars, source_container, destination_container,
                   shared_queue, stats, lockVars, localVars, error>>

\* mutant: the notify after setting producer_finished is missing
ProducerFinNotify_Lost ==
    /\ pc["producer"] = "p_fin_notify"
    /\ pc' = Goto("producer", "p_fin_release")
    /\ UNCHANGED <<readVars, ctrlVars, dataVars, lockVars, localVars, error>>

\* WaitNotify: "self.condition.notify()" telling the consumer the producer is done
ProducerFinNotify ==
    /\ pc["producer"] = "p_fin_notify"
    /\ waiters' = AfterNotify(waiters)
    /\ pc' = NotifyFrom("producer", "p_fin_release")
    /\ UNCHANGED <<readVars, ctrlVars, dataVars, cond_owner, dest_lock, localVars, error>>

\* WaitNotify: the with block around the flag ends; the producer returns
ProducerFinRelease ==
    /\ pc["producer"] = "p_fin_release"
    /\ cond_owner' = "none"
    /\ pc' = Goto("producer", "done")
    /\ UNCHANGED <<readVars, ctrlVars, dataVars, waiters, dest_lock, localVars, error>>

(* ------------------------------ consumer ------------------------------- *)

\* "if total_items < 0: raise ValueError" (caught by the method's own except),
\* "if total_items == 0: return", "consumed = 0"
ConsumerStart ==
    /\ pc["consumer"] = "c_start"
    /\ pc' = Goto("consumer",
                  IF total_items < 0 THEN "failed"
                  ELSE IF total_items = 0 THEN "done"
                  ELSE "c_loop")
    /\ consumed' = 0
    /\ UNCHANGED <<readVars, ctrlVars, dataVars, lockVars, idx, current_size, item,
                   total_items, error>>

\* mutant: the consumer stops one item short of its target
ConsumerLoop_OneShort ==
    /\ pc["consumer"] = "c_loop"
    /\ IF consumed + 1 < total_items
         THEN /\ pc' = Goto("consumer",
                            IF variant = "Queue" THEN "c_get" ELSE "c_acquire")
              /\ UNCHANGED consumed
         ELSE /\ pc' = Goto("consumer", "done")
              /\ consumed' = 0
    /\ UNCHANGED <<readVars, ctrlVars, dataVars, lockVars, idx, current_size, item,
                   total_items, error>>

\* "while consumed < total_items:"
ConsumerLoop ==
    /\ pc["consumer"] = "c_loop"
    /\ IF consumed < total_items
         THEN /\ pc' = Goto("consumer",
                            IF variant = "Queue" THEN "c_get" ELSE "c_acquire")
              /\ UNCHANGED consumed
         ELSE /\ pc' = Goto("consumer", "done")
              /\ consumed' = 0
    /\ UNCHANGED <<readVars, ctrlVars, dataVars, lockVars, idx, current_size, item,
                   total_items, error>>

\* WaitNotify: "with self.condition:" taken by the consumer
ConsumerAcquire ==
    /\ pc["consumer"] = "c_acquire"
    /\ cond_owner = "none"
    /\ cond_owner' = "consumer"
    /\ pc' = Goto("consumer", "c_empty")
    /\ UNCHANGED <<readVars, ctrlVars, dataVars, waiters, dest_lock, localVars, error>>

\* WaitNotify: the consumer's wait predicate
ConsumerMustWait == Len(shared_queue) = 0 /\ ~producer_finished

\* WaitNotify: "while len(self.shared_queue) == 0 and not self.producer_finished:
\*                  self.condition.wait()"
ConsumerCheckEmpty ==
    /\ pc["consumer"] = "c_empty"
    /\ IF ConsumerMustWait
         THEN /\ cond_owner' = "none"
              /\ waiters' = Append(waiters, "consumer")
              /\ pc' = Goto("consumer", "c_waiting")
         ELSE /\ pc' = Goto("consumer", "c_time")
              /\ UNCHANGED <<cond_owner, waiters>>
    /\ UNCHANGED <<readVars, ctrlVars, dataVars, dest_lock, localVars, error>>

\* WaitNotify: a notified consumer takes the lock again before wait() returns
ConsumerReacquire ==
    /\ pc["consumer"] = "c_reacquire"
    /\ cond_owner = "none"
    /\ cond_owner' = "consumer"
    /\ pc' = Goto("consumer", "c_empty")
    /\ UNCHANGED <<readVars, ctrlVars, dataVars, waiters, dest_lock, localVars, error>>

\* Queue: queue.Queue.get blocks while the queue is empty
GetBlocks == Len(shared_queue) = 0

\* mutant: the queue hands out its newest item (a LifoQueue)
ConsumerGet_Lifo ==
    /\ pc["consumer"] = "c_get"
    /\ ~GetBlocks
    /\ item' = shared_queue[Len(shared_queue)]
    /\ shared_queue' = SubSeq(shared_queue, 1, Len(shared_queue) - 1)
    /\ pc' = Goto("consumer", "c_time")
    /\ UNCHANGED <<readVars, ctrlVars, source_container, destination_container,
                   producer_finished, stats, lockVars, idx, current_size,
                   consumed, total_items, error>>

\* Queue: "item = self.shared_queue.get()"
ConsumerGet ==
    /\ pc["consumer"] = "c_get"
    /\ ~GetBlocks
    /\ item' = Head(shared_queue)
    /\ shared_queue' = Tail(shared_queue)
    /\ pc' = Goto("consumer", "c_time")
    /\ UNCHANGED <<readVars, ctrlVars, source_container, destination_container,
                   producer_finished, stats, lockVars, idx, current_size,
                   consumed, total_items, error>>

\* "self.stats.consumer_wait_time += (wait_end - wait_start) * 1000"
ConsumerTime ==
    /\ pc["consumer"] = "c_time"
    /\ \E d \in Elapsed :
         stats' = [stats EXCEPT
                     !.consumer_wait_time = AddTime(stats.consumer_wait_time, d)]
    /\ pc' = Goto("consumer", IF variant = "Queue" THEN "c_none" ELSE "c_break")
    /\ UNCHANGED <<readVars, ctrlVars, source_container, destination_container,
                   shared_queue, producer_finished, lockVars, localVars, error>>

\* WaitNotify: the consumer's early-exit test
ConsumerMustBreak == Len(shared_queue) = 0 /\ producer_finished

\* WaitNotify: "if len(self.shared_queue) == 0 and self.producer_finished: break"
\* (the break leaves the with block: the lock is released)
ConsumerBreak ==
    /\ pc["consumer"] = "c_break"
    /\ IF ConsumerMustBreak
         THEN /\ cond_owner' = "none"
              /\ pc' = Goto("consumer", "done")
              /\ consumed' = 0
         ELSE /\ pc' = Goto("consumer", "c_pop")
              /\ UNCHANGED <<cond_owner, consumed>>
    /\ UNCHANGED <<readVars, ctrlVars, dataVars, waiters, dest_lock, idx, current_size,
                   item, total_items, error>>

\* mutant: the consumer reads the front item without removing it
ConsumerPop_Peek ==
    /\ pc["consumer"] = "c_pop"
    /\ shared_queue # <<>>
    /\ item' = Head(shared_queue)
    /\ pc' = Goto("consumer", "c_none")
    /\ UNCHANGED <<readVars, ctrlVars, dataVars, lockVars, idx, current_size,
                   consumed, total_items, error>>

\* WaitNotify: "item = self.shared_queue.pop(0)"; on an empty list pop raises
\* IndexError, which the method's except catches (the with block releases)
ConsumerPop ==
    /\ pc["consumer"] = "c_pop"
    /\ IF shared_queue = <<>>
         THEN /\ pc' = Goto("consumer", "failed")
              /\ cond_owner' = "none"
              /\ consumed' = 0
              /\ UNCHANGED <<item, shared_queue>>
         ELSE /\ item' = Head(shared_queue)
              /\ shared_queue' = Tail(shared_queue)
              /\ pc' = Goto("consumer", "c_none")
              /\ UNCHANGED <<cond_owner, consumed>>
    /\ UNCHANGED <<readVars, ctrlVars, source_container, destination_container,
                   producer_finished, stats, waiters, dest_lock, idx,
                   current_size, total_items, error>>

\* "if item is None: ... continue"; in WaitNotify the continue leaves the with
\* block (lock released)
ConsumerNone ==
    /\ pc["consumer"] = "c_none"
    /\ IF item = None
         THEN /\ pc' = Goto("consumer", "c_loop")
              /\ cond_owner' = "none"
         ELSE /\ pc' = Goto("consumer",
                            IF variant = "Queue" THEN "c_dest_acquire"
                            ELSE "c_consumed")
              /\ UNCHANGED cond_owner
    /\ UNCHANGED <<readVars, ctrlVars, dataVars, waiters, dest_lock, localVars, error>>

\* "consumed += 1"
ConsumerConsumed ==
    /\ pc["consumer"] = "c_consumed"
    /\ consumed' = consumed + 1
    /\ pc' = Goto("consumer", "c_count")
    /\ UNCHANGED <<readVars, ctrlVars, dataVars, lockVars, idx, current_size, item,
                   total_items, error>>

\* mutant: the consumer never counts what it dequeued
ConsumerCount_Forgotten ==
    /\ pc["consumer"] = "c_count"
    /\ IF variant = "Queue"
         THEN /\ pc' = Goto("consumer", "c_loop")
              /\ item' = None
         ELSE /\ pc' = Goto("consumer", "c_dest_acquire")
              /\ UNCHANGED item
    /\ UNCHANGED <<readVars, ctrlVars, dataVars, lockVars, idx, current_size, consumed,
                   total_items, error>>

\* "self.stats.items_consumed += 1"; in the Queue variant the iteration ends
\* here (print, task_done, sleep) and item is dead
ConsumerCount ==
    /\ pc["consumer"] = "c_count"
    /\ stats' = [stats EXCEPT !.items_consumed = stats.items_consumed + 1]
    /\ IF variant = "Queue"
         THEN /\ pc' = Goto("consumer", "c_loop")
              /\ item' = None
         ELSE /\ pc' = Goto("consumer", "c_dest_acquire")
              /\ UNCHANGED item
    /\ UNCHANGED <<readVars, ctrlVars, source_container, destination_container,
                   shared_queue, producer_finished, lockVars, idx, current_size,
                   consumed, total_items, error>>

\* "with self.lock:" / "with self.dest_lock:" taken by the consumer
ConsumerDestAcquire ==
    /\ pc["consumer"] = "c_dest_acquire"
    /\ dest_lock = "none"
    /\ dest_lock' = "consumer"
    /\ pc' = Goto("consumer", "c_dest_append")
    /\ UNCHANGED <<readVars, ctrlVars, dataVars, cond_owner, waiters, localVars, error>>

\* mutant: the item is inserted at the front of the destination
ConsumerDestAppend_Front ==
    /\ pc["consumer"] = "c_dest_append"
    /\ destination_container' = <<item>> \o destination_container
    /\ dest_lock' = "none"
    /\ pc' = Goto("consumer",
                  IF variant = "Queue" THEN "c_consumed" ELSE "c_notify")
    /\ UNCHANGED <<readVars, ctrlVars, source_container, shared_queue, producer_finished,
                   stats, cond_owner, waiters, localVars, error>>

\* mutant: the consumer overwrites the destination with the new item
ConsumerDestAppend_Overwrite ==
    /\ pc["consumer"] = "c_dest_append"
    /\ destination_container' = <<item>>
    /\ dest_lock' = "none"
    /\ pc' = Goto("consumer",
                  IF variant = "Queue" THEN "c_consumed" ELSE "c_notify")
    /\ UNCHANGED <<readVars, ctrlVars, source_container, shared_queue, producer_finished,
                   stats, cond_owner, waiters, localVars, error>>

\* "self.destination_container.append(item)" and the end of its with block
ConsumerDestAppend ==
    /\ pc["consumer"] = "c_dest_append"
    /\ destination_container' = Append(destination_container, item)
    /\ dest_lock' = "none"
    /\ pc' = Goto("consumer",
                  IF variant = "Queue" THEN "c_consumed" ELSE "c_notify")
    /\ UNCHANGED <<readVars, ctrlVars, source_container, shared_queue, producer_finished,
                   stats, cond_owner, waiters, localVars, error>>

\* mutant: the consumer does not notify after its pop
ConsumerNotify_Lost ==
    /\ pc["consumer"] = "c_notify"
    /\ pc' = Goto("consumer", "c_release")
    /\ UNCHANGED <<readVars, ctrlVars, dataVars, lockVars, localVars, error>>

\* WaitNotify: "self.condition.notify()" after the pop
ConsumerNotify ==
    /\ pc["consumer"] = "c_notify"
    /\ waiters' = AfterNotify(waiters)
    /\ pc' = NotifyFrom("consumer", "c_release")
    /\ UNCHANGED <<readVars, ctrlVars, dataVars, cond_owner, dest_lock, localVars, error>>

\* WaitNotify: the with block ends (lock released), then time.sleep(0.15)
ConsumerRelease ==
    /\ pc["consumer"] = "c_release"
    /\ cond_owner' = "none"
    /\ item' = None
    /\ pc' = Goto("consumer", "c_loop")
    /\ UNCHANGED <<readVars, ctrlVars, dataVars, waiters, dest_lock, idx, current_size,
                   consumed, total_items, error>>

(* --------------------------- role failures ----------------------------- *)

\* statements at which a thread is blocked or not running: nothing raises there
Quiet == {"idle", "done", "failed", "p_waiting", "c_waiting",
          "p_reacquire", "c_reacquire"}

\* mutant: a failing producer still signals completion to the consumer
ProducerFail_Signals ==
    /\ pc["producer"] \notin Quiet
    /\ producer_finished' = TRUE
    /\ waiters' = AfterNotify(waiters)
    /\ pc' = NotifyFrom("producer", "failed")
    /\ cond_owner' = IF cond_owner = "producer" THEN "none" ELSE cond_owner
    /\ idx' = 0
    /\ current_size' = 0
    /\ UNCHANGED <<readVars, ctrlVars, source_container, destination_container,
                   shared_queue, stats, dest_lock, consumed, item,
                   total_items, error>>

\* mutant: the producer's except block sets the finished flag
ProducerFail_SetsFlag ==
    /\ pc["producer"] \notin Quiet
    /\ producer_finished' = TRUE
    /\ pc' = Goto("producer", "failed")
    /\ cond_owner' = IF cond_owner = "producer" THEN "none" ELSE cond_owner
    /\ idx' = 0
    /\ current_size' = 0
    /\ UNCHANGED <<readVars, ctrlVars, source_container, destination_container,
                   shared_queue, stats, waiters, dest_lock, consumed, item,
                   total_items, error>>

\* "except Exception as e:" of producer(): an exception raised by any statement
\* of the try block ends the thread; the with blocks it is in release their locks
ProducerFail ==
    /\ pc["producer"] \notin Quiet
    /\ pc' = Goto("producer", "failed")
    /\ cond_owner' = IF cond_owner = "producer" THEN "none" ELSE cond_owner
    /\ idx' = 0
    /\ current_size' = 0
    /\ UNCHANGED <<readVars, ctrlVars, dataVars, waiters, dest_lock, consumed, item,
                   total_items, error>>

\* "except Exception as e:" of consumer()
ConsumerFail ==
    /\ pc["consumer"] \notin Quiet
    /\ pc' = Goto("consumer", "failed")
    /\ cond_owner' = IF cond_owner = "consumer" THEN "none" ELSE cond_owner
    /\ dest_lock' = IF dest_lock = "consumer" THEN "none" ELSE dest_lock
    /\ consumed' = 0
    /\ item' = None
    /\ UNCHANGED <<readVars, ctrlVars, dataVars, waiters, idx, current_size,
                   total_items, error>>

(* ------------------------------- join ---------------------------------- *)

Terminated(t) == pc[t] \in {"done", "failed"}

\* mutant: run() joins the producer thread only
Join_ProducerOnly ==
    /\ phase = "running"
    /\ Terminated("producer")
    /\ phase' = "completed"
    /\ stats' = IF mode = "run" THEN [stats EXCEPT !.end_time = 1] ELSE stats
    /\ UNCHANGED <<readVars, variant, capacity, mode, runs, source_container,
                   destination_container, shared_queue, producer_finished,
                   lockVars, pc, localVars, error>>

\* mutant: run() joins the consumer thread only
Join_ConsumerOnly ==
    /\ phase = "running"
    /\ Terminated("consumer")
    /\ phase' = "completed"
    /\ stats' = IF mode = "run" THEN [stats EXCEPT !.end_time = 1] ELSE stats
    /\ UNCHANGED <<readVars, variant, capacity, mode, runs, source_container,
                   destination_container, shared_queue, producer_finished,
                   lockVars, pc, localVars, error>>

\* "producer_thread.join(); consumer_thread.join()" return; run() then records
\* end_time
Join ==
    /\ phase = "running"
    /\ \A t \in Threads : Terminated(t)
    /\ phase' = "completed"
    /\ stats' = IF mode = "run" THEN [stats EXCEPT !.end_time = 1] ELSE stats
    /\ UNCHANGED <<readVars, variant, capacity, mode, runs, source_container,
                   destination_container, shared_queue, producer_finished,
                   lockVars, pc, localVars, error>>

\* the comparison run() prints as its verification
VerificationOutcome == source_container = destination_container

(* ------------------------------ readers -------------------------------- *)

\* get_destination_container(): "with self.lock:" / "with self.dest_lock:"
GetDestinationAcquire(r) ==
    /\ reader_pc[r] = "idle"
    /\ dest_lock = "none"
    /\ dest_lock' = r
    /\ reader_pc' = [reader_pc EXCEPT ![r] = "r_copy"]
    /\ UNCHANGED <<ctrlVars, dataVars, cond_owner, waiters, pc, localVars,
                   error, returned>>

\* mutant: the getter hands out the controller's own list
GetDestinationReturn_NoCopy(r) ==
    /\ reader_pc[r] = "r_copy"
    /\ returned' = [returned EXCEPT ![r] =
                       [of |-> "destination", items |-> destination_container,
                        shared |-> TRUE]]
    /\ dest_lock' = "none"
    /\ reader_pc' = [reader_pc EXCEPT ![r] = "idle"]
    /\ UNCHANGED <<ctrlVars, dataVars, cond_owner, waiters, pc, localVars,
                   error>>

\* "return self.destination_container.copy()": a new list with the same
\* elements is returned and the lock is released
GetDestinationReturn(r) ==
    /\ reader_pc[r] = "r_copy"
    /\ returned' = [returned EXCEPT ![r] =
                       [of |-> "destination", items |-> destination_container,
                        shared |-> FALSE]]
    /\ dest_lock' = "none"
    /\ reader_pc' = [reader_pc EXCEPT ![r] = "idle"]
    /\ UNCHANGED <<ctrlVars, dataVars, cond_owner, waiters, pc, localVars,
                   error>>

\* get_source_container(): "return self.source_container.copy()", no lock
GetSourceContainer(r) ==
    /\ reader_pc[r] = "idle"
    /\ returned' = [returned EXCEPT ![r] =
                       [of |-> "source", items |-> source_container,
                        shared |-> FALSE]]
    /\ UNCHANGED <<ctrlVars, dataVars, lockVars, pc, localVars, error,
                   reader_pc>>

\* the lists that are the same object as the list reader r holds: r's own,
\* and, when a getter handed out the controller's list itself, that list and
\* every other reference to it
SameObject(r, q) ==
    \/ q = r
    \/ /\ returned[r].shared
       /\ returned[q].shared
       /\ returned[q].of = returned[r].of

\* the caller changes the list it was given (here: empties it)
ClearReturned(r) ==
    /\ reader_pc[r] = "idle"
    /\ returned[r].of # "none"
    /\ returned[r].items # <<>>
    /\ returned' = [q \in Readers |->
                       IF SameObject(r, q)
                         THEN [returned[q] EXCEPT !.items = <<>>]
                         ELSE returned[q]]
    /\ source_container' =
           IF returned[r].shared /\ returned[r].of = "source"
             THEN <<>> ELSE source_container
    /\ destination_container' =
           IF returned[r].shared /\ returned[r].of = "destination"
             THEN <<>> ELSE destination_container
    /\ UNCHANGED <<ctrlVars, shared_queue, producer_finished, stats, lockVars,
                   pc, localVars, error, reader_pc>>

ReaderStep(r) ==
    \/ GetDestinationAcquire(r)
    \/ GetDestinationReturn(r)
    \/ GetSourceContainer(r)
    \/ ClearReturned(r)

(* --------------------------- specification ----------------------------- *)

ProducerStep ==
    \/ ProducerStart
    \/ ProducerNext
    \/ ProducerAcquire
    \/ ProducerCheckFull
    \/ ProducerReacquire
    \/ ProducerPut
    \/ ProducerTime
    \/ ProducerAppend
    \/ ProducerSize
    \/ ProducerMax
    \/ ProducerCount
    \/ ProducerNotify
    \/ ProducerRelease
    \/ ProducerFinAcquire
    \/ ProducerFinSet
    \/ ProducerFinNotify
    \/ ProducerFinRelease

ConsumerStep ==
    \/ ConsumerStart
    \/ ConsumerLoop
    \/ ConsumerAcquire
    \/ ConsumerCheckEmpty
    \/ ConsumerReacquire
    \/ ConsumerGet
    \/ ConsumerTime
    \/ ConsumerBreak
    \/ ConsumerPop
    \/ ConsumerNone
    \/ ConsumerConsumed
    \/ ConsumerCount
    \/ ConsumerDestAcquire
    \/ ConsumerDestAppend
    \/ ConsumerNotify
    \/ ConsumerRelease

Call ==
    \/ \E n \in -1..MaxItems : InitializeSource(n)
    \/ \E items \in CustomSources : InitializeSourceCustom(FALSE, items)
    \/ InitializeSourceCustom(TRUE, <<>>)
    \/ \E n \in -1..MaxItems : Run(n)
    \/ \E t \in -1..(MaxItems + 1) : StartThreads(t)

Next ==
    \/ Call
    \/ ProducerStep
    \/ ConsumerStep
    \/ ProducerFail
    \/ ConsumerFail
    \/ Join

Spec == Init /\ [][Next]_vars

\* The program with no exception raised from outside its own statements
NextNoFailure ==
    \/ Call
    \/ ProducerStep
    \/ ConsumerStep
    \/ Join

\* The failure-free program under fair scheduling: each of the two threads, and
\* the caller blocked in join(), takes its next step when it stays able to.
FairSpec ==
    /\ Init
    /\ [][NextNoFailure]_vars
    /\ WF_vars(ProducerStep)
    /\ WF_vars(ConsumerStep)
    /\ WF_vars(Join)

\* The whole public surface on one controller: construction with any capacity,
\* the source set by hand, reset_statistics() between runs.
ApiNext ==
    \/ \E c \in -1..MaxCapacity : Construct(c)
    \/ \E items \in CustomSources : AssignSource(items)
    \/ ResetStatistics
    \/ Next

ApiSpec == InitNew /\ [][ApiNext]_vars

\* Error-free runs repeated on one controller
RerunNext ==
    \/ NextNoFailure
    \/ \E n \in -1..MaxItems : RunAgain(n)

RerunSpec == Init /\ [][RerunNext]_vars

\* Runs repeated on one controller, a role of any of them possibly failing
RerunFailNext ==
    \/ Next
    \/ \E n \in -1..MaxItems : RunAgain(n)

RerunFailSpec == Init /\ [][RerunFailNext]_vars

\* A run, a role possibly failing, whose results are read by the caller's
\* threads (and possibly reset) once run() has returned
ReadNext ==
    \/ \E n \in 0..MaxItems : Run(n)
    \/ ProducerStep
    \/ ConsumerStep
    \/ ProducerFail
    \/ ConsumerFail
    \/ Join
    \/ ResetStatistics
    \/ \E r \in Readers : phase = "completed" /\ ReaderStep(r)

ReadSpec == Init /\ [][ReadNext]_vars

\* get_destination_container() called by a thread of the caller
Poll(r) ==
    \/ GetDestinationAcquire(r)
    \/ GetDestinationReturn(r)

\* An error-free run whose destination is polled by the caller's threads
\* while the producer and the consumer are running
PollNext ==
    \/ \E n \in 0..MaxItems : Run(n)
    \/ ProducerStep
    \/ ConsumerStep
    \/ Join
    \/ \E r \in Readers : Poll(r)

PollSpec == Init /\ [][PollNext]_vars

\* The program on a platform whose condition.wait() can wake spuriously
SpuriousNext ==
    \/ Next
    \/ \E t \in Threads : SpuriousWake(t)

SpuriousSpec == Init /\ [][SpuriousNext]_vars

(* ------------------------------- claims -------------------------------- *)

NoRoleFailure == \A t \in Threads : pc[t] # "failed"

\* run() has returned
RunCompleted == phase = "completed" /\ mode = "run"

Balance == stats.items_produced - stats.items_consumed

\* C1: when run(itemCount) completes without a role failure, the destination
\* equals the source, which is [1..itemCount], in both variants and under every
\* interleaving.
C1_DataIntegrity ==
    (RunCompleted /\ NoRoleFailure) =>
        /\ destination_container = source_container
        /\ source_container = Range(total_items)

C1_Witness ==
    /\ RunCompleted /\ NoRoleFailure
    /\ variant = "WaitNotify"
    /\ capacity = 1
    /\ Len(destination_container) = MaxItems

\* C2: with no role failure and fair scheduling, run(itemCount) terminates in
\* both variants: both threads finish and the joins return (hence no state with
\* both threads blocked for good).
C2_RunTerminates ==
    (phase = "running" /\ mode = "run") ~> (RunCompleted /\ NoRoleFailure)

C2_Witness ==
    /\ RunCompleted /\ NoRoleFailure
    /\ variant = "Queue"
    /\ total_items > capacity
    /\ stats.max_queue_size = capacity

\* C3: in every reachable state, in both variants, 0 <= occupancy <= capacity.
C3_Occupancy == Len(shared_queue) >= 0 /\ Len(shared_queue) <= capacity

\* the producer is blocked on a full buffer of capacity 2
C3_Witness ==
    /\ capacity = 2
    /\ Len(shared_queue) = capacity
    /\ pc["producer"] \in {"p_waiting", "p_put"}

\* C4: at every instant the destination is a prefix of the source with its
\* sentinel entries removed.
C4_DestinationPrefix ==
    IsPrefix(destination_container, NonSentinel(source_container))

\* a source with a sentinel, partly transferred
C4_Witness ==
    /\ \E i \in 1..Len(source_container) : source_container[i] = None
    /\ Len(destination_container) >= 1
    /\ Len(destination_container) < Len(NonSentinel(source_container))
    /\ shared_queue # <<>>

\* C5: in the condition-variable variant, between any two statements of the
\* threads, 0 <= items_produced - items_consumed <= capacity (no role having
\* failed).
C5_BalanceWaitNotify ==
    (variant = "WaitNotify" /\ NoRoleFailure) => (Balance >= 0 /\ Balance <= capacity)

\* the consumer has popped an item of a full buffer and not yet counted it
C5_Witness ==
    /\ variant = "WaitNotify" /\ NoRoleFailure
    /\ capacity = 2
    /\ Balance = capacity
    /\ Len(shared_queue) = capacity - 1
    /\ pc["consumer"] = "c_count"

\* C6: in the queue.Queue variant, between any two statements of the threads,
\* 0 <= items_produced - items_consumed <= capacity (no role having failed).
C6_BalanceQueue ==
    (variant = "Queue" /\ NoRoleFailure) => (Balance >= 0 /\ Balance <= capacity)

\* C7: when run(itemCount) completes without a role failure,
\* items_produced = items_consumed = itemCount.
C7_FinalCounts ==
    (RunCompleted /\ NoRoleFailure) =>
        /\ stats.items_produced = total_items
        /\ stats.items_consumed = total_items

C7_Witness ==
    /\ RunCompleted /\ NoRoleFailure
    /\ variant = "Queue"
    /\ stats.items_consumed = MaxItems

\* C8: in every state, in both variants, 0 <= max_queue_size <= capacity.
C8_HighWaterMark == stats.max_queue_size >= 0 /\ stats.max_queue_size <= capacity

C8_Witness ==
    /\ phase = "running"
    /\ capacity = 2
    /\ stats.max_queue_size = capacity

\* the consumer was started with a target above what the producer enqueues
TargetTooLarge ==
    /\ phase = "running"
    /\ total_items > Len(NonSentinel(source_container))

\* C9: in the condition-variable variant a consumer whose target exceeds the
\* number of items the producer enqueues terminates under fair scheduling, and
\* when it has left its loop the buffer is empty, producer_finished is true and
\* every enqueued item is in the destination.
C9_ConsumerLeaves ==
    /\ [](  (variant = "WaitNotify" /\ TargetTooLarge /\ NoRoleFailure
              /\ pc["consumer"] = "done")
            => /\ shared_queue = <<>>
               /\ producer_finished
               /\ destination_container = NonSentinel(source_container))
    /\ (variant = "WaitNotify" /\ TargetTooLarge) ~> (pc["consumer"] = "done")

C9_Witness ==
    /\ variant = "WaitNotify" /\ TargetTooLarge /\ NoRoleFailure
    /\ pc["consumer"] = "done"
    /\ Len(destination_container) = MaxItems

\* C10: in the queue.Queue variant a consumer whose target exceeds the number
\* of items the producer enqueues terminates once the producer has finished and
\* the buffer is empty: in such a state it has returned or can take a step.
C10_QueueConsumerLeaves ==
    (/\ variant = "Queue" /\ TargetTooLarge /\ NoRoleFailure
     /\ pc["producer"] = "done" /\ producer_finished
     /\ shared_queue = <<>>)
    => (Terminated("consumer") \/ ENABLED ConsumerStep)

\* C11: if a role fails in the middle of a run, run() still returns to its
\* caller (without raising): while the run is in progress after a failure, a
\* thread or the joining caller can always take a step; and once it has
\* returned the destination differs from the source.
C11_RunReturnsAfterFailure ==
    /\ (phase = "running" /\ mode = "run" /\ ~NoRoleFailure)
          => ENABLED (ProducerStep \/ ConsumerStep \/ Join)
    /\ (RunCompleted /\ ~NoRoleFailure /\ stats.items_consumed < total_items)
          => destination_container # source_container


\* the producer's step over a sentinel entry of the source
SentinelSkipped ==
    /\ pc["producer"] = "p_next"
    /\ idx <= Len(source_container)
    /\ source_container[idx] = None
    /\ idx' = idx + 1

\* C12: with sentinel (None) entries in the source, in both variants: the
\* buffer never holds a sentinel; the step over a sentinel changes neither
\* items_produced nor items_consumed; and when the producer has terminated
\* normally, items_produced is the number of non-sentinel source entries.
C12_SentinelsSkipped ==
    /\ [](\A i \in 1..Len(shared_queue) : shared_queue[i] # None)
    /\ [][SentinelSkipped =>
            /\ stats'.items_produced = stats.items_produced
            /\ stats'.items_consumed = stats.items_consumed
            /\ shared_queue' = shared_queue]_vars
    /\ []((phase = "running" /\ pc["producer"] = "done")
            => stats.items_produced = Len(NonSentinel(source_container)))

C12_Witness ==
    /\ variant = "WaitNotify"
    /\ phase = "running"
    /\ pc["producer"] = "done"
    /\ source_container = <<None, 2, None>>
    /\ stats.items_produced = 1
    /\ destination_container = <<2>>


\* C13: in a sequence of error-free runs on one controller, every completed
\* run(n) leaves the destination equal to [1..n] and items_produced =
\* items_consumed = n, and its high-water mark is that of this run alone (at
\* most n): nothing of an earlier run carries over.
C13_RunsIndependent ==
    RunCompleted =>
        /\ Len(destination_container) = total_items
        /\ \A i \in 1..total_items : destination_container[i] = i
        /\ stats.items_produced = total_items
        /\ stats.items_consumed = total_items
        /\ stats.max_queue_size <= total_items

C13_Witness ==
    /\ RunCompleted
    /\ runs = MaxRuns
    /\ total_items = 1
    /\ destination_container = <<1>>
    /\ stats.max_queue_size = 1


\* C14: run() called again resets all mutable run state, however the previous
\* run ended: when the threads of a second or later run are started, the
\* statistics are fresh, the destination is empty, the producer-finished flag
\* is clear and the shared buffer is empty.
C14_RerunStartsClean ==
    (/\ phase = "running"
     /\ mode = "run"
     /\ runs > 1
     /\ pc["producer"] = "p_start"
     /\ pc["consumer"] = "c_start")
        => /\ stats = [Statistics EXCEPT !.start_time = 1]
           /\ destination_container = <<>>
           /\ producer_finished = FALSE
           /\ shared_queue = <<>>


\* C15: reset_statistics() called in any state with no run in progress, in
\* both variants, leaves items_produced, items_consumed, max_queue_size and
\* both wait-time sums zero and the destination empty.
C15_ResetZeroes ==
    [][ResetStatistics =>
          /\ stats'.items_produced = 0
          /\ stats'.items_consumed = 0
          /\ stats'.max_queue_size = 0
          /\ stats'.producer_wait_time = 0
          /\ stats'.consumer_wait_time = 0
          /\ destination_container' = <<>>]_vars

\* a completed run of MaxItems items whose results have been reset
C15_Witness ==
    /\ phase = "completed"
    /\ mode = "run"
    /\ NoRoleFailure
    /\ Len(source_container) = MaxItems
    /\ stats = Statistics
    /\ destination_container = <<>>


\* C16: constructing with capacity <= 0 fails with ValueError and yields no
\* controller (nothing can be called afterwards); with capacity > 0 it yields
\* a controller with that capacity, an empty source and an empty destination;
\* and no operation on a controller ever changes its capacity.
C16_Constructor ==
    /\ [][\A c \in -1..MaxCapacity :
            Construct(c) =>
                IF c <= 0
                  THEN /\ error' = "ValueError"
                       /\ phase' = "invalid"
                  ELSE /\ error' = "none"
                       /\ phase' = "idle"
                       /\ capacity' = c
                       /\ source_container' = <<>>
                       /\ destination_container' = <<>>]_vars
    /\ [][phase # "invalid"]_vars
    /\ [][phase # "new" => capacity' = capacity]_vars
    /\ [](phase \notin {"new", "invalid"} => capacity > 0)

C16_Witness ==
    /\ phase = "invalid"
    /\ error = "ValueError"
    /\ pc = [t \in Threads |-> "idle"]


\* C17: initialize_source(n) with n >= 0 sets the source to exactly
\* [1, 2, ..., n] (empty for n = 0); with n < 0 it fails with ValueError and
\* leaves the previous source as it was.
C17_InitializeSource ==
    [][\A n \in -1..MaxItems :
          InitializeSource(n) =>
              IF n >= 0
                THEN /\ error' = "none"
                     /\ Len(source_container') = n
                     /\ \A i \in 1..n : source_container'[i] = i
                ELSE /\ error' = "ValueError"
                     /\ source_container' = source_container]_vars

\* initialize_source(MaxItems) followed by a rejected initialize_source(-1)
C17_Witness ==
    /\ variant = "WaitNotify"
    /\ phase = "idle"
    /\ error = "ValueError"
    /\ Len(source_container) = MaxItems
    /\ source_container[MaxItems] = MaxItems


\* C18: run(n) with n < 0 fails with ValueError before any producer or
\* consumer task is started, and leaves source, destination, statistics and
\* buffer (and the finished flag) exactly as they were before the call.
C18_RunRejectsNegative ==
    [][\A n \in -1..MaxItems :
          (n < 0 /\ (Run(n) \/ RunAgain(n))) =>
              /\ error' = "ValueError"
              /\ pc' = pc
              /\ phase' = phase
              /\ source_container' = source_container
              /\ destination_container' = destination_container
              /\ stats' = stats
              /\ shared_queue' = shared_queue
              /\ producer_finished' = producer_finished]_vars

\* a rejected run(-1) after a run that left items in the destination and in
\* the buffer
C18_Witness ==
    /\ phase = "completed"
    /\ mode = "run"
    /\ error = "ValueError"
    /\ destination_container # <<>>
    /\ shared_queue # <<>>
    /\ stats.items_produced > 0


\* C19: initialize_source_custom(None) fails with ValueError and leaves the
\* source unchanged; initialize_source_custom(items) with a list sets the
\* source to a sequence equal to items: same length, same values, same order.
C19_InitializeSourceCustom ==
    [][/\ InitializeSourceCustom(TRUE, <<>>) =>
              /\ error' = "ValueError"
              /\ source_container' = source_container
       /\ \A items \in CustomSources :
              InitializeSourceCustom(FALSE, items) =>
                  /\ error' = "none"
                  /\ Len(source_container') = Len(items)
                  /\ \A i \in 1..Len(items) : source_container'[i] = items[i]]_vars

\* a custom source that survived a rejected initialize_source_custom(None)
C19_Witness ==
    /\ variant = "Queue"
    /\ phase = "idle"
    /\ error = "ValueError"
    /\ source_container = <<1, None>>


\* run(0) in progress
RunOfNothing == phase = "running" /\ mode = "run" /\ total_items = 0

\* C20: run(0) is a legal no-op in both variants, for every capacity: while
\* it is in progress nothing is enqueued, dequeued or counted and the consumer
\* never waits (it is at its start or has returned); both tasks terminate and
\* run() returns with the producer-finished flag set, the destination empty
\* and items_produced = items_consumed = 0.
C20_RunZero ==
    /\ [](RunOfNothing =>
            /\ shared_queue = <<>>
            /\ destination_container = <<>>
            /\ stats.items_produced = 0
            /\ stats.items_consumed = 0
            /\ stats.max_queue_size = 0
            /\ pc["consumer"] \in {"c_start", "done"}
            /\ (pc["producer"] = "done" => producer_finished))
    /\ []((RunCompleted /\ total_items = 0) =>
            /\ NoRoleFailure
            /\ producer_finished
            /\ shared_queue = <<>>
            /\ destination_container = <<>>
            /\ stats.items_produced = 0
            /\ stats.items_consumed = 0)
    /\ (RunOfNothing ~> (RunCompleted /\ total_items = 0))

C20_Witness ==
    /\ RunCompleted
    /\ total_items = 0
    /\ variant = "WaitNotify"
    /\ capacity = MaxCapacity
    /\ producer_finished
    /\ pc = [t \in Threads |-> "done"]


\* a run() of fewer items than the buffer holds
SmallRun == mode = "run" /\ phase \in {"running", "completed"} /\ total_items < capacity

\* the producer is blocked on a full buffer: inside put() in the Queue variant,
\* in condition.wait() (or woken from it, not yet running) in the other
ProducerBlocked ==
    \/ pc["producer"] = "p_put" /\ PutBlocks
    \/ pc["producer"] \in {"p_waiting", "p_reacquire"}

\* C21: when itemCount < capacity, in both variants and every interleaving,
\* the occupancy stays strictly below capacity throughout the run and the
\* producer never blocks or waits for room.
C21_NeverFull ==
    SmallRun =>
        /\ Len(shared_queue) < capacity
        /\ ~ProducerBlocked
        /\ \A i \in 1..Len(waiters) : waiters[i] # "producer"
        /\ stats.max_queue_size < capacity

C21_Witness ==
    /\ RunCompleted
    /\ NoRoleFailure
    /\ variant = "WaitNotify"
    /\ total_items > 0
    /\ total_items = capacity - 1
    /\ stats.max_queue_size = total_items


\* One step of a bounded FIFO buffer of the controller's capacity: a put of
\* the producer's current item while there is room, or a get of the oldest item
BoundedPut ==
    /\ Len(shared_queue) < capacity
    /\ idx \in 1..Len(source_container)
    /\ shared_queue' = Append(shared_queue, source_container[idx])

BoundedGet ==
    /\ shared_queue # <<>>
    /\ shared_queue' = Tail(shared_queue)
    /\ item' = Head(shared_queue)

\* an error-free run() in progress
CleanRun == phase = "running" /\ mode = "run" /\ NoRoleFailure

\* C22: the two buffer strategies are interchangeable. The result of a
\* completed error-free run(n) does not depend on the variant (destination
\* [1..n], items_produced = items_consumed = n), and both variants allow
\* exactly the put/get sequences of a bounded FIFO buffer: every change of the
\* buffer is a put with room or a get of the oldest item, and whenever the
\* bounded buffer allows a put (a get) the producer (the consumer) is not held
\* back, except while the other role is inside its critical section.
C22_Interchangeable ==
    /\ []((RunCompleted /\ NoRoleFailure) =>
            /\ destination_container = [i \in 1..total_items |-> i]
            /\ stats.items_produced = total_items
            /\ stats.items_consumed = total_items)
    /\ [][shared_queue' # shared_queue => BoundedPut \/ BoundedGet]_vars
    /\ []((CleanRun /\ Len(shared_queue) < capacity /\ pc["producer"] # "done")
            => ENABLED ProducerStep \/ cond_owner = "consumer")
    /\ []((CleanRun /\ shared_queue # <<>> /\ pc["consumer"] # "done")
            => ENABLED ConsumerStep \/ cond_owner = "producer")

C22_Witness ==
    /\ RunCompleted
    /\ NoRoleFailure
    /\ variant = "Queue"
    /\ capacity = 1
    /\ total_items = MaxItems
    /\ Len(destination_container) = MaxItems


\* run() has returned and its results have not been reset since (run() sets
\* end_time on return, reset_statistics() zeroes it)
ResultsStanding == RunCompleted /\ stats.end_time = 1

\* C23: once run() has returned, the destination and all statistics stay
\* unchanged until the next reset_statistics() or run(); every thread that
\* calls get_destination_container() in that time obtains the controller's
\* destination sequence, so all of them obtain the same sequence.
C23_ReadOnlyAfterCompletion ==
    /\ [][(phase = "completed"
            /\ ~ResetStatistics
            /\ ~(\E n \in -1..MaxItems : RunAgain(n)))
          => /\ destination_container' = destination_container
             /\ stats' = stats]_vars
    /\ [][\A r \in Readers :
            (phase = "completed" /\ GetDestinationReturn(r))
                => returned'[r].items = destination_container]_vars
    /\ [](ResultsStanding =>
            \A r \in Readers :
                (returned[r].of = "destination" /\ returned[r].items # <<>>)
                    => returned[r].items = destination_container)

C23_Witness ==
    /\ ResultsStanding
    /\ Len(destination_container) = MaxItems
    /\ \A r \in Readers :
          /\ returned[r].of = "destination"
          /\ returned[r].items = destination_container


\* C24: get_source_container() and get_destination_container() return
\* defensive copies: each call returns a new list equal to the controller's
\* sequence (so two successive calls return equal but distinct lists), and
\* changing a returned list changes neither the controller's source or
\* destination nor the list returned by another call.
C24_DefensiveCopies ==
    /\ [][\A r \in Readers :
            /\ GetDestinationReturn(r) =>
                  /\ returned'[r].items = destination_container
                  /\ ~returned'[r].shared
            /\ GetSourceContainer(r) =>
                  /\ returned'[r].items = source_container
                  /\ ~returned'[r].shared]_vars
    /\ [][\A r \in Readers :
            ClearReturned(r) =>
                /\ returned'[r].items = <<>>
                /\ source_container' = source_container
                /\ destination_container' = destination_container
                /\ \A q \in Readers \ {r} : returned'[q] = returned[q]]_vars

\* one reader has emptied the destination list it got; the controller's
\* destination and the other reader's copy are intact
C24_Witness ==
    /\ RunCompleted
    /\ Len(destination_container) = MaxItems
    /\ returned["reader1"] = [of |-> "destination", items |-> <<>>, shared |-> FALSE]
    /\ returned["reader2"].of = "destination"
    /\ returned["reader2"].items = destination_container


\* C25: in the condition-variable variant, even when wait() returns
\* spuriously or after a stale notification, the producer appends only when
\* len(shared_queue) < capacity and the consumer pops only when shared_queue
\* is non-empty, each holding the lock, because the predicate is re-checked in
\* a loop after every wake-up.
C25_RecheckAfterWake ==
    /\ (pc["producer"] = "p_append"
          => Len(shared_queue) < capacity /\ cond_owner = "producer")
    /\ (pc["consumer"] = "c_pop"
          => shared_queue # <<>> /\ cond_owner = "consumer")
    /\ Len(shared_queue) <= capacity

\* the producer has been woken while the buffer is full and the consumer has
\* not run at all: a wake-up nobody sent
C25_Witness ==
    /\ variant = "WaitNotify"
    /\ pc["producer"] = "p_reacquire"
    /\ Len(shared_queue) = capacity
    /\ stats.items_consumed = 0
    /\ pc["consumer"] = "c_start"


\* the statements of each role that lie inside "with self.condition:" in the
\* condition-variable variant (the time spent in wait() excluded)
CriticalLabels ==
    [producer |-> {"p_full", "p_time", "p_append", "p_size", "p_max",
                   "p_count", "p_notify", "p_release", "p_fin_set",
                   "p_fin_notify", "p_fin_release"},
     consumer |-> {"c_empty", "c_time", "c_break", "c_pop", "c_none",
                   "c_consumed", "c_count", "c_dest_acquire", "c_dest_append",
                   "c_notify", "c_release"}]

InCritical(t) == pc[t] \in CriticalLabels[t]

\* C26: in the condition-variable variant the producer and the consumer are
\* never inside their critical sections at the same time: a role inside its
\* critical section holds the condition's lock, and during a run the buffer
\* and the producer-finished flag change only in a step of the role that
\* holds the lock.
C26_MutualExclusion ==
    /\ [](variant = "WaitNotify" =>
            /\ \A t \in Threads : InCritical(t) => cond_owner = t
            /\ ~(InCritical("producer") /\ InCritical("consumer")))
    /\ [][(/\ variant = "WaitNotify"
           /\ phase = "running"
           /\ phase' = "running"
           /\ \/ shared_queue' # shared_queue
              \/ producer_finished' # producer_finished)
          => /\ cond_owner \in Threads
             /\ InCritical(cond_owner)
             /\ pc'[cond_owner] # pc[cond_owner]]_vars

\* the consumer is about to pop while the producer waits for the lock
C26_Witness ==
    /\ variant = "WaitNotify"
    /\ pc["consumer"] = "c_pop"
    /\ pc["producer"] = "p_acquire"
    /\ cond_owner = "consumer"
    /\ Len(shared_queue) = capacity


\* the producer has failed and the consumer is blocked on the empty buffer:
\* in get() (Queue) or in condition.wait() (WaitNotify)
StarvedConsumer ==
    /\ phase = "running"
    /\ mode = "run"
    /\ pc["producer"] = "failed"
    /\ shared_queue = <<>>
    /\ pc["consumer"] \in {"c_get", "c_waiting"}

\* the consumer has failed and the producer is blocked on the full buffer:
\* in put() (Queue) or in condition.wait() (WaitNotify)
BlockedProducer ==
    /\ phase = "running"
    /\ mode = "run"
    /\ pc["consumer"] = "failed"
    /\ Len(shared_queue) = capacity
    /\ pc["producer"] \in {"p_put", "p_waiting"}

\* C27: a failed role can leave its counterpart blocked forever, in both
\* variants. When the producer has failed and the consumer is blocked on the
\* empty buffer, or the consumer has failed and the producer is blocked on the
\* full buffer, no thread step and no join is possible, and the situation only
\* ends if the blocked role fails too: run() never returns. A consumer whose
\* producer failed terminates normally only if all items had been enqueued.
C27_CounterpartBlocked ==
    /\ []((StarvedConsumer \/ BlockedProducer)
            => ~ENABLED (ProducerStep \/ ConsumerStep \/ Join))
    /\ [][StarvedConsumer =>
            StarvedConsumer' \/ pc'["consumer"] = "failed"]_vars
    /\ [][BlockedProducer =>
            BlockedProducer' \/ pc'["producer"] = "failed"]_vars
    /\ []((mode = "run" /\ pc["producer"] = "failed" /\ pc["consumer"] = "done")
            => Len(destination_container) = total_items)

\* the producer failed after its first item; the consumer delivered it and
\* now waits for a notification that will never come
C27_Witness ==
    /\ StarvedConsumer
    /\ variant = "WaitNotify"
    /\ pc["consumer"] = "c_waiting"
    /\ Len(destination_container) = 1
    /\ total_items = MaxItems


\* a put completes: put() returns (Queue) / the append is done (WaitNotify)
PutCompletes == ProducerPut \/ ProducerAppend

\* a get completes: get() returns (Queue) / pop(0) returns (WaitNotify)
GetCompletes ==
    /\ pc["consumer"] \in {"c_get", "c_pop"}
    /\ pc'["consumer"] \notin {pc["consumer"], "failed"}

\* C28: in every run, in both variants, the occupancy is the number of
\* completed puts minus the number of completed gets and changes only by
\* them; a get completes only on a non-empty buffer (the k-th get after the
\* k-th put) and returns the oldest item; a put completes only with room (the
\* (k + capacity)-th put after the k-th get). With capacity 1 a put therefore
\* takes the occupancy from 0 to 1 and a get from 1 to 0: they alternate.
C28_PutGetOrder ==
    /\ [][PutCompletes =>
            /\ Len(shared_queue) < capacity
            /\ Len(shared_queue') = Len(shared_queue) + 1]_vars
    /\ [][GetCompletes =>
            /\ shared_queue # <<>>
            /\ item' = Head(shared_queue)
            /\ shared_queue' = Tail(shared_queue)]_vars
    /\ [][shared_queue' # shared_queue => PutCompletes \/ GetCompletes]_vars
    /\ [][capacity = 1 =>
            /\ PutCompletes => Len(shared_queue) = 0 /\ Len(shared_queue') = 1
            /\ GetCompletes => Len(shared_queue) = 1 /\ Len(shared_queue') = 0]_vars
    /\ [](Len(shared_queue) \in 0..capacity)

\* capacity 1: the last put has completed after all earlier items were taken
C28_Witness ==
    /\ variant = "Queue"
    /\ capacity = 1
    /\ mode = "run"
    /\ total_items = MaxItems
    /\ Len(shared_queue) = 1
    /\ Len(destination_container) = MaxItems - 1
    /\ shared_queue[1] = MaxItems


\* the producer has appended an item and not yet updated the high-water mark
MarkPending == pc["producer"] \in {"p_size", "p_max"}

\* C29: in the condition-variable variant, whenever the buffer lock is free,
\* and at completion, stats.max_queue_size is the maximum occupancy since the
\* last reset. It is never below the current occupancy except between the
\* producer's append and its update (inside the lock); it changes only by
\* rising to the occupancy the buffer has at that moment or by a reset to 0;
\* and it is at least 1 once an item has been produced.
C29_HighWaterMarkExact ==
    /\ []((variant = "WaitNotify" /\ ~MarkPending)
            => stats.max_queue_size >= Len(shared_queue))
    /\ []((variant = "WaitNotify" /\ MarkPending) => cond_owner = "producer")
    /\ [][(variant = "WaitNotify" /\ stats'.max_queue_size # stats.max_queue_size)
            => \/ /\ stats'.max_queue_size = Len(shared_queue)
                  /\ stats'.max_queue_size > stats.max_queue_size
                  /\ shared_queue' = shared_queue
               \/ /\ stats'.max_queue_size = 0
                  /\ phase # "running"]_vars
    /\ []((variant = "WaitNotify" /\ stats.items_produced >= 1)
            => stats.max_queue_size >= 1)

\* a second run on the controller, lock free, the buffer full for the first
\* time in this run and the mark equal to it
C29_Witness ==
    /\ variant = "WaitNotify"
    /\ runs = MaxRuns
    /\ phase = "running"
    /\ cond_owner = "none"
    /\ capacity = MaxCapacity
    /\ Len(shared_queue) = capacity
    /\ stats.max_queue_size = capacity
    /\ stats.items_produced = capacity


\* C30: in the queue.Queue variant, when a run completes, stats.max_queue_size
\* is at least 1 whenever at least one item was produced (the claim says it
\* equals the maximum occupancy the buffer reached). The producer samples
\* qsize() after put() has returned and released the queue's lock, so the
\* consumer's get() can come first and every sample can be 0.
C30_HighWaterMarkQueue ==
    (/\ variant = "Queue"
     /\ RunCompleted
     /\ NoRoleFailure
     /\ stats.items_produced >= 1)
        => stats.max_queue_size >= 1


\* the step writes the given statistics field
WritesField(f) == stats'[f] # stats[f]

\* C31: every write to items_produced, items_consumed and max_queue_size made
\* during a run is performed while the writing task holds the buffer's lock,
\* and each statistics field is written by one task only (the producer's
\* fields by producer steps, the consumer's by consumer steps).
C31_StatsWrittenUnderLock ==
    [][phase = "running" =>
         /\ (WritesField("items_produced") \/ WritesField("max_queue_size")
               \/ WritesField("producer_wait_time"))
              => ProducerStep
         /\ (WritesField("items_consumed") \/ WritesField("consumer_wait_time"))
              => ConsumerStep
         /\ (WritesField("items_produced") \/ WritesField("max_queue_size"))
              => cond_owner = "producer"
         /\ WritesField("items_consumed") => cond_owner = "consumer"]_vars


\* the producer is inside its put and the buffer has room for the item
PutWithRoom ==
    /\ phase = "running"
    /\ pc["producer"] \in {"p_acquire", "p_full", "p_reacquire", "p_time", "p_append"}
    /\ Len(shared_queue) < capacity

\* C32: in the condition-variable variant a reader that holds the destination
\* lock never delays the hand-off: while it holds the lock and the producer is
\* putting into a buffer with room, the producer and the consumer can go on
\* without the reader releasing the lock.
C32_ReaderNeverDelays ==
    (/\ variant = "WaitNotify"
     /\ dest_lock \in Readers
     /\ PutWithRoom)
        => ENABLED (ProducerStep \/ ConsumerStep)


\* neither role nor the caller waiting in join() can take a step
RunStalled == phase = "running" /\ ~ENABLED (ProducerStep \/ ConsumerStep \/ Join)

\* C33: during a run the destination is append-only and written only by the
\* consumer under the destination lock; every snapshot a polling reader gets
\* from get_destination_container() extends every snapshot returned before it;
\* and a reader is never part of a deadlock: whoever holds the destination lock
\* is at the statement that releases it, and whenever the run cannot move
\* without a reader, a reader holds the lock and can return.
C33_SnapshotsGrow ==
    /\ [][(phase = "running" /\ destination_container' # destination_container)
            => /\ ConsumerStep
               /\ dest_lock = "consumer"
               /\ Len(destination_container') = Len(destination_container) + 1
               /\ IsPrefix(destination_container, destination_container')]_vars
    /\ [][\A r \in Readers : GetDestinationReturn(r)
            => \A q \in Readers :
                 returned[q].of = "destination"
                   => IsPrefix(returned[q].items, returned'[r].items)]_vars
    /\ [](dest_lock = "consumer" => pc["consumer"] = "c_dest_append")
    /\ [](\A r \in Readers : dest_lock = r <=> reader_pc[r] = "r_copy")
    /\ [](RunStalled => \E r \in Readers : ENABLED GetDestinationReturn(r))

\* two snapshots taken during the run, the later one longer, while a reader
\* is inside the getter again
C33_Witness ==
    /\ phase = "running"
    /\ returned["reader1"].of = "destination"
    /\ returned["reader2"].of = "destination"
    /\ Len(returned["reader1"].items) = 1
    /\ Len(returned["reader2"].items) = 2
    /\ reader_pc["reader1"] = "r_copy"


\* run() has started its two threads and neither has executed a statement
ThreadsJustStarted ==
    /\ mode = "run"
    /\ phase = "running"
    /\ pc["producer"] = "p_start"
    /\ pc["consumer"] = "c_start"

\* C34: run() goes through Idle, Running, Completed in that order. When the
\* threads start, the source is list(range(1, n + 1)), the statistics and the
\* destination are reset and the start timestamp is recorded; as long as the
\* run is in progress the end timestamp is not; the end timestamp is recorded,
\* and the run is Completed (the comparison follows), only when both the
\* producer and the consumer have terminated.
C34_Lifecycle ==
    /\ [][phase' # phase
            => <<phase, phase'>> \in {<<"idle", "running">>,
                                      <<"running", "completed">>,
                                      <<"completed", "running">>}]_vars
    /\ [](ThreadsJustStarted
            => /\ source_container = Range(total_items)
               /\ destination_container = <<>>
               /\ producer_finished = FALSE
               /\ stats = [Statistics EXCEPT !.start_time = 1])
    /\ []((mode = "run" /\ phase = "running")
            => /\ source_container = Range(total_items)
               /\ stats.start_time = 1
               /\ stats.end_time = 0)
    /\ []((mode = "run" /\ stats.end_time = 1)
            => /\ phase = "completed"
               /\ \A t \in Threads : Terminated(t))
    /\ [](phase = "completed" => \A t \in Threads : Terminated(t))

\* a second run on the controller has gone through all three phases
C34_Witness ==
    /\ RunCompleted
    /\ runs = MaxRuns
    /\ stats.start_time = 1
    /\ stats.end_time = 1
    /\ Len(source_container) = MaxItems
    /\ destination_container = source_container


\* C35: within a run the producer-finished flag changes only from false to
\* true, only in the producer's own flag statement, reached after the whole
\* source has been gone through (every non-sentinel entry produced); a failing
\* producer does not set it and executes nothing afterwards; and once the flag
\* is true the buffer never gains an item.
C35_FinishedFlag ==
    /\ [][(phase = "running" /\ producer_finished' # producer_finished)
            => /\ ~producer_finished
               /\ ProducerFinSet
               /\ stats.items_produced = Len(NonSentinel(source_container))]_vars
    /\ [][ProducerFail => producer_finished' = producer_finished]_vars
    /\ [](pc["producer"] = "failed" => ~ENABLED ProducerStep)
    /\ [][(phase = "running" /\ producer_finished)
            => Len(shared_queue') <= Len(shared_queue)]_vars

\* the producer has produced a whole source containing a None entry and set
\* the flag while the buffer still holds an item
C35_Witness ==
    /\ phase = "running"
    /\ producer_finished
    /\ pc["producer"] = "done"
    /\ shared_queue # <<>>
    /\ Len(source_container) = MaxItems
    /\ stats.items_produced = MaxItems - 1


\* the item the consumer has dequeued and not yet appended to the destination
InFlight ==
    IF /\ item # None
       /\ \/ pc["consumer"] \in {"c_time", "c_none", "c_dest_acquire", "c_dest_append"}
          \/ variant = "WaitNotify" /\ pc["consumer"] \in {"c_consumed", "c_count"}
      THEN <<item>>
      ELSE <<>>

\* the producer has put an item into the buffer and not yet counted it
PutUncounted ==
    \/ pc["producer"] \in {"p_size", "p_max", "p_count"}
    \/ variant = "Queue" /\ pc["producer"] = "p_time"

\* the non-sentinel source items the producer has enqueued so far
Enqueued ==
    SubSeq(NonSentinel(source_container), 1,
           stats.items_produced + (IF PutUncounted THEN 1 ELSE 0))

\* C36: at every instant of a run, destination, then the item the consumer
\* has dequeued and not yet appended, then the buffer from front to back, is
\* exactly the sequence of non-sentinel source items enqueued so far.
C36_Conservation ==
    phase \in {"running", "completed"}
        => /\ stats.items_produced + (IF PutUncounted THEN 1 ELSE 0)
                <= Len(NonSentinel(source_container))
           /\ destination_container \o InFlight \o shared_queue = Enqueued

\* all three parts are non-empty: one item delivered, one in the consumer's
\* hands, one in the buffer
C36_Witness ==
    /\ phase = "running"
    /\ Len(destination_container) = 1
    /\ InFlight # <<>>
    /\ Len(shared_queue) = 1


\* thread t is in the condition's wait set
Waiting(t) == pc[t] \in {"p_waiting", "c_waiting"}

\* the other role
Counterpart(t) == IF t = "producer" THEN "consumer" ELSE "producer"

\* C37: in the condition-variable variant the producer and the consumer are
\* never both in the wait set: it holds at most one thread, exactly the one
\* that is waiting, and a waiting thread leaves it only by a notify() executed
\* by its counterpart while the counterpart owns the lock.
C37_OneWaiter ==
    /\ [](variant = "WaitNotify"
            => /\ ~(Waiting("producer") /\ Waiting("consumer"))
               /\ Len(waiters) <= 1
               /\ \A t \in Threads : Waiting(t) <=> waiters = <<t>>)
    /\ [][\A t \in Threads :
            (Waiting(t) /\ ~Waiting(t)')
              => /\ pc'[t] = ReacquireLabel(t)
                 /\ cond_owner = Counterpart(t)
                 /\ pc[Counterpart(t)] \in {"p_notify", "p_fin_notify", "c_notify"}
                 /\ waiters' = <<>>]_vars

\* the consumer's notify() has just woken the producer, which waited on a
\* full buffer
C37_Witness ==
    /\ variant = "WaitNotify"
    /\ pc["producer"] = "p_reacquire"
    /\ pc["consumer"] = "c_release"
    /\ cond_owner = "consumer"
    /\ waiters = <<>>
    /\ Len(shared_queue) = capacity - 1


\* C38: when run(itemCount) completes without a role failure, the shared
\* buffer is empty and the producer-finished flag is true, so the next run
\* starts with an empty buffer.
C38_CleanCompletion ==
    /\ []((RunCompleted /\ NoRoleFailure)
            => /\ shared_queue = <<>>
               /\ producer_finished
               /\ cond_owner = "none"
               /\ waiters = <<>>)
    /\ [][\A n \in 0..MaxItems :
            (RunAgain(n) /\ NoRoleFailure) => shared_queue' = <<>>]_vars

\* a second run of MaxItems items has completed cleanly
C38_Witness ==
    /\ RunCompleted
    /\ NoRoleFailure
    /\ runs = MaxRuns
    /\ stats.items_consumed = MaxItems
    /\ shared_queue = <<>>
    /\ producer_finished

=============================================================================
